---- MODULE Spec2Model ----
(***************************************************************************)
(* A model of the Squarespace/WordPress export conversion scripts:         *)
(*   merge_attachments_corrected.py  reconciler + match-quality scorer     *)
(*   create_formatted_csv.py         extractor, formatting sanitizer,      *)
(*                                   merge_with_attachments                *)
(*   merge_attachments.py            the earlier reconciler                *)
(*   xml_to_csv_converter.py         extractor, plain-text sanitizer       *)
(*                                                                         *)
(* Python strings the code inspects character by character (titles, URLs,  *)
(* filenames, markup) are sequences of one-character strings; strings the  *)
(* code only copies or compares whole (post_id, post_type, dates) are TLA+ *)
(* strings.  Python's 0-based cursor i is kept 0-based: rows[i] in the     *)
(* code is rows[i + 1] here.                                               *)
(***************************************************************************)
EXTENDS Integers, Sequences, FiniteSets, TLC

VARIABLES
    variant,        \* which reconciler runs: "corrected", "with_attachments", "to_posts"
    input_rows,     \* the rows as read from the input (never changed)
    rows,           \* rows / posts: the list the loop walks (mutated in place by merge_with_attachments)
    i,              \* the loop cursor (0-based)
    merged_posts,   \* merged_posts / merged: the output list
    paired_from,    \* per merged record, the 1-based input position of the row whose
                    \* attachment fields it carries, 0 when it carries none
    merge_pc,       \* "loop" | "returned" | "idle"
    title,          \* scorer input
    filename,       \* scorer input
    score_result,   \* what check_match_quality returned, NoResult before the call
    score_pc,       \* "call" | "returned" | "idle"
    extractor,      \* which extractor runs: "parse_xml_file", "parse_xml_with_formatting"
    items,          \* items[1:]: the export's items, each as the groups its patterns capture
    item_pos,       \* how many items the for loop has handled
    parsed_posts,   \* posts: the output list
    extract_pc,     \* "loop" | "returned" | "idle"
    sanitizer,      \* which sanitizer runs: "clean_html", "clean_html_preserve_formatting"
    markup,         \* html_text of the first call
    cleaned,        \* what the first call returned
    cleaned_again,  \* what the call on the first call's result returned
    sanitize_pc,    \* "call" | "once" | "twice" | "idle"
    scraper,        \* which scraper runs: "scrape_images", "scrape_images_v2"
    table,          \* the rows of the input table as read (never changed)
    scrape_rows,    \* rows: the list update_csv_with_real_images walks and updates in place
    scrape_pos,     \* how many rows the for loop has handled
    fetch_log,      \* the calls of get_header_image so far: row position, URL, whether the fetch failed
    written_header, \* the output file's header row, <<>> while the file does not exist
    written_rows,   \* the output file's data rows
    scrape_pc       \* "loop" | "written" | "failed" | "idle"

merge_vars == <<variant, input_rows, rows, i, merged_posts, paired_from, merge_pc>>
score_vars == <<title, filename, score_result, score_pc>>
extract_vars == <<extractor, items, item_pos, parsed_posts, extract_pc>>
sanitize_vars == <<sanitizer, markup, cleaned, cleaned_again, sanitize_pc>>
scrape_vars ==
    <<scraper, table, scrape_rows, scrape_pos, fetch_log, written_header, written_rows, scrape_pc>>
vars == <<merge_vars, score_vars, extract_vars, sanitize_vars, scrape_vars>>

(***************************************************************************)
(* Python str operations                                                   *)
(***************************************************************************)
EmptyStr == <<>>

Uppers == <<"A","B","C","D","E","F","G","H","I","J","K","L","M",
            "N","O","P","Q","R","S","T","U","V","W","X","Y","Z">>
Lowers == <<"a","b","c","d","e","f","g","h","i","j","k","l","m",
            "n","o","p","q","r","s","t","u","v","w","x","y","z">>
Digits == {"0","1","2","3","4","5","6","7","8","9"}
LowerSet == {Lowers[k] : k \in 1..26}
UpperSet == {Uppers[k] : k \in 1..26}

\* str.lower() on one character (ASCII)
lower_char(c) ==
    IF c \in UpperSet THEN Lowers[CHOOSE k \in 1..26 : Uppers[k] = c] ELSE c

\* s.lower()
lower(s) == [k \in 1..Len(s) |-> lower_char(s[k])]

\* s.startswith(p)
startswith(s, p) == Len(p) <= Len(s) /\ SubSeq(s, 1, Len(p)) = p

contains_nonempty(s, p) ==
    p # <<>> /\ \E k \in 0..(Len(s) - Len(p)) : SubSeq(s, k + 1, k + Len(p)) = p
\* p in s  (substring test; the empty string is in every string)
contains(s, p) ==
    \E k \in 0..(Len(s) - Len(p)) : SubSeq(s, k + 1, k + Len(p)) = p

\* s.find(c): 1-based position of the first c in s, 0 when there is none
find(s, c) ==
    IF \E k \in 1..Len(s) : s[k] = c
    THEN CHOOSE k \in 1..Len(s) : s[k] = c /\ \A j \in 1..(k - 1) : s[j] # c
    ELSE 0

\* s.rfind(c): 1-based position of the last c in s, 0 when there is none
rfind(s, c) ==
    IF \E k \in 1..Len(s) : s[k] = c
    THEN CHOOSE k \in 1..Len(s) : s[k] = c /\ \A j \in (k + 1)..Len(s) : s[j] # c
    ELSE 0

\* s[:n] and s[n:] (n a 0-based Python slice bound, 0 <= n <= len(s))
take(s, n) == SubSeq(s, 1, n)
drop(s, n) == SubSeq(s, n + 1, Len(s))

\* the characters of s that satisfy keep, in order
RECURSIVE filter_chars(_, _)
filter_chars(s, keepset) ==
    IF s = <<>> THEN <<>>
    ELSE (IF Head(s) \in keepset THEN <<Head(s)>> ELSE <<>>)
         \o filter_chars(Tail(s), keepset)

(***************************************************************************)
(* merge_attachments_corrected.py: get_filename                            *)
(***************************************************************************)
Letters == LowerSet \cup UpperSet
\* urllib.parse.scheme_chars
scheme_chars == Letters \cup Digits \cup {"+", "-", "."}

\* urllib.parse.uses_params
uses_params ==
    { <<>>, <<"f","t","p">>, <<"h","d","l">>, <<"p","r","o","s","p","e","r","o">>,
      <<"h","t","t","p">>, <<"i","m","a","p">>, <<"h","t","t","p","s">>,
      <<"s","h","t","t","p">>, <<"r","t","s","p">>, <<"r","t","s","p","u">>,
      <<"s","i","p">>, <<"s","i","p","s">>, <<"m","m","s">>, <<"s","f","t","p">>,
      <<"t","e","l">> }

\* s up to (not including) the first c; all of s when c does not occur
before_first(s, c) == IF find(s, c) = 0 THEN s ELSE take(s, find(s, c) - 1)

\* urlsplit: a leading "<scheme>:" is split off when the scheme starts with a
\* letter and holds only scheme_chars
split_scheme(url) ==
    LET c == find(url, ":") IN
    IF c > 1 /\ url[1] \in Letters /\ \A k \in 1..(c - 1) : url[k] \in scheme_chars
    THEN [scheme |-> lower(take(url, c - 1)), rest |-> drop(url, c)]
    ELSE [scheme |-> <<>>, rest |-> url]

\* urlsplit: after "//" the network location runs to the first of "/", "?", "#"
strip_netloc(rest) ==
    IF startswith(rest, <<"/", "/">>)
    THEN LET after == drop(rest, 2)
             stops == {k \in 1..Len(after) : after[k] \in {"/", "?", "#"}}
         IN  IF stops = {} THEN <<>>
             ELSE drop(after, (CHOOSE k \in stops : \A j \in stops : k <= j) - 1)
    ELSE rest

\* urllib.parse._splitparams: ";params" is cut from the last path segment
splitparams(url) ==
    LET slash == rfind(url, "/")
        tail  == drop(url, IF slash = 0 THEN 0 ELSE slash - 1)
        semi  == find(tail, ";")
    IN  IF semi = 0 THEN url
        ELSE take(url, (IF slash = 0 THEN 0 ELSE slash - 1) + semi - 1)

\* urlparse(url).path, for URLs of printable ASCII without whitespace whose
\* network location holds no "[" or "]" (urlsplit raises ValueError on an
\* unbalanced bracket; the rows of InputRowSet hold none)
urlparse_path(url) ==
    LET sp       == split_scheme(url)
        noloc    == strip_netloc(sp.rest)
        nofrag   == before_first(noloc, "#")
        noquery  == before_first(nofrag, "?")
    IN  IF sp.scheme \in uses_params /\ find(noquery, ";") # 0
        THEN splitparams(noquery)
        ELSE noquery

image_extensions ==
    { <<"j","p","g">>, <<"j","p","e","g">>, <<"p","n","g">>, <<"g","i","f">>,
      <<"w","e","b","p">> }

\* re.sub(r'\.(jpg|jpeg|png|gif|webp).*$', '', s): s is cut at the leftmost "."
\* that an image extension follows (s holds no newline)
strip_image_extension(s) ==
    LET hits == {k \in 1..Len(s) :
                    s[k] = "." /\ \E e \in image_extensions : startswith(drop(s, k), e)}
    IN  IF hits = {} THEN s
        ELSE take(s, (CHOOSE k \in hits : \A j \in hits : k <= j) - 1)

get_filename(url) ==
    IF url = <<>> THEN <<>>
    ELSE LET path == urlparse_path(url)
             last == drop(path, rfind(path, "/"))      \* path.split('/')[-1]
         IN  strip_image_extension(lower(last))

(***************************************************************************)
(* merge_attachments_corrected.py: simplify_text, check_match_quality      *)
(***************************************************************************)
AlnumLower == LowerSet \cup Digits

simplify_text_nolower(text) == filter_chars(text, AlnumLower)
\* re.sub(r'[^a-z0-9]', '', text.lower())
simplify_text(text) == filter_chars(lower(text), AlnumLower)

\* the length of the longest prefix of s made of [a-z0-9]
RECURSIVE run_length(_)
run_length(s) ==
    IF s = <<>> \/ Head(s) \notin AlnumLower THEN 0 ELSE 1 + run_length(Tail(s))

\* re.findall(r'[a-z0-9]{3,}', s): the maximal runs of [a-z0-9] of length >= 3
RECURSIVE findall_words(_)
findall_words(s) ==
    IF s = <<>> THEN <<>>
    ELSE LET n == run_length(s) IN
         IF n = 0 THEN findall_words(Tail(s))
         ELSE (IF n >= 3 THEN <<take(s, n)>> ELSE <<>>) \o findall_words(drop(s, n))

generic_names ==
    << <<"b","l","o","g","_","b","l","a","c","k">>,
       <<"b","l","o","g","_","w","h","i","t","e">>,
       <<"b","l","o","g","_","r","e","d">>,
       <<"b","l","o","g","_","b","l","u","e">>,
       <<"b","l","o","g","_","g","r","e","e","n">>,
       <<"b","l","o","g">>,
       <<"i","m","a","g","e">>,
       <<"i","m","g">>,
       <<"u","n","s","p","l","a","s","h">>,
       <<"p","h","o","t","o">>,
       <<"u","n","t","i","t","l","e","d">>,
       <<"a","t","t","a","c","h","m","e","n","t">>,
       <<"s","c","r","e","e","n">>,
       <<"t","i","t","l","e","+","s","l","i","d","e">>,
       <<"t","i","t","l","e">> >>

\* the reason strings
NoImage      == <<"N","o"," ","i","m","a","g","e">>
GoodMatch    == <<"G","o","o","d"," ","m","a","t","c","h">>
PartialMatch == <<"P","a","r","t","i","a","l"," ","m","a","t","c","h">>
WeakMatch    == <<"W","e","a","k"," ","m","a","t","c","h"," ","-"," ",
                  "v","e","r","i","f","y">>
NoMatch      == <<"N","o"," ","m","a","t","c","h"," ","-"," ","l","i","k","e","l","y",
                  " ","s","t","o","c","k"," ","p","h","o","t","o">>
\* f"Generic image ({generic})"
GenericImage(generic) ==
    <<"G","e","n","e","r","i","c"," ","i","m","a","g","e"," ","(">> \o generic \o <<")">>

Quality(score, review, reason) ==
    [match_score |-> score, needs_review |-> review, reason |-> reason]

\* the test of the generic loop (line 45)
is_generic_exact(filename_lower, generic) == filename_lower = generic
is_generic(filename_lower, generic) ==
    filename_lower = generic \/ startswith(filename_lower, generic \o <<"_">>)

\* the index in generic_names of the first name the loop of lines 44-46 returns
\* on, 0 when the loop falls through
first_generic(filename_lower) ==
    LET hits == {k \in 1..Len(generic_names) : is_generic(filename_lower, generic_names[k])}
    IN  IF hits = {} THEN 0 ELSE CHOOSE k \in hits : \A j \in hits : k <= j

\* sum(1 for fw in filename_words for tw in title_words if fw in tw or tw in fw)
count_matches(title_words, filename_words) ==
    Cardinality({p \in (1..Len(filename_words)) \X (1..Len(title_words)) :
                    \/ contains(title_words[p[2]], filename_words[p[1]])
                    \/ contains(filename_words[p[1]], title_words[p[2]])})

\* check_match_quality from line 34 on: the filename is not empty
match_nonempty(title_arg, filename_arg) ==
    LET filename_lower == lower(filename_arg)
        g == first_generic(filename_lower)
    IN
    IF g # 0 THEN Quality(1, TRUE, GenericImage(generic_names[g]))
    ELSE
    LET simple_title    == simplify_text(title_arg)
        simple_filename == simplify_text(filename_arg)
    IN
    IF contains(simple_title, simple_filename) \/ contains(simple_filename, simple_title)
    THEN Quality(10, FALSE, GoodMatch)
    ELSE
    LET title_words    == findall_words(simple_title)
        filename_words == findall_words(simple_filename)
        matches == count_matches(title_words, filename_words)
    IN
    IF Len(simple_filename) >= 5 /\ matches >= 2 THEN Quality(8, FALSE, PartialMatch)
    ELSE IF Len(simple_filename) >= 5 /\ matches >= 1 THEN Quality(5, TRUE, WeakMatch)
    ELSE Quality(2, TRUE, NoMatch)

check_match_quality_unguarded(title_arg, filename_arg) ==
    match_nonempty(title_arg, filename_arg)
check_match_quality(title_arg, filename_arg) ==
    IF filename_arg = <<>> THEN Quality(0, TRUE, NoImage)
    ELSE match_nonempty(title_arg, filename_arg)

(***************************************************************************)
(* The three reconcilers.  One iteration of each while loop is an operator *)
(* from (the list, the cursor) to what the iteration appends and where it  *)
(* leaves the cursor; the actions below apply it.                          *)
(***************************************************************************)
ContentTypes == {"post", "page"}

next_is_any_row(rs, c) == c + 1 < Len(rs)
next_is_attachment_at_cursor(rs, c) ==
    c + 1 < Len(rs) /\ rs[c + 1].post_type = "attachment"
\* i + 1 < len(rows) and rows[i + 1]['post_type'] == 'attachment'   (i 0-based)
next_is_attachment(rs, c) ==
    c + 1 < Len(rs) /\ rs[c + 2].post_type = "attachment"

\* what one iteration does: the records appended, the input position each takes
\* its attachment fields from (0: none), the list and the cursor afterwards
Step(out, from, rs, c) == [out |-> out, from |-> from, rows |-> rs, i |-> c]

\* a record whose review flag is the opposite of the scorer's verdict
corrected_paired_inverted(row, next_row) ==
    LET attachment_url == next_row.attachment_url
        attachment_id  == next_row.post_id
        fname          == get_filename(attachment_url)
        q              == check_match_quality(row.title, fname)
    IN  [post_id |-> row.post_id, title |-> row.title,
         post_type |-> row.post_type, post_date |-> row.post_date,
         category |-> row.category, link |-> row.link,
         excerpt |-> row.excerpt, content |-> row.content,
         attachment_url |-> attachment_url,
         attachment_id |-> attachment_id,
         attachment_filename |-> fname,
         needs_review |-> IF q.needs_review THEN "NO" ELSE "YES",
         review_reason |-> q.reason]
\* merge_attachments_corrected.py lines 92-116: the record of a paired post
corrected_paired(row, next_row) ==
    LET attachment_url == next_row.attachment_url
        attachment_id  == next_row.post_id
        fname          == get_filename(attachment_url)
        q              == check_match_quality(row.title, fname)
    IN  [post_id |-> row.post_id, title |-> row.title,
         post_type |-> row.post_type, post_date |-> row.post_date,
         category |-> row.category, link |-> row.link,
         excerpt |-> row.excerpt, content |-> row.content,
         attachment_url |-> attachment_url,
         attachment_id |-> attachment_id,
         attachment_filename |-> fname,
         needs_review |-> IF q.needs_review THEN "YES" ELSE "NO",
         review_reason |-> q.reason]

\* merge_attachments_corrected.py lines 122-136: the record of an unpaired post
corrected_unpaired(row) ==
    [post_id |-> row.post_id, title |-> row.title,
     post_type |-> row.post_type, post_date |-> row.post_date,
     category |-> row.category, link |-> row.link,
     excerpt |-> row.excerpt, content |-> row.content,
     attachment_url |-> <<>>,
     attachment_id |-> "",
     attachment_filename |-> <<>>,
     needs_review |-> "YES",
     review_reason |-> NoImage]

\* a reconciler that, when no attachment follows the post, falls back to the
\* attachment before it
merge_attachments_corrected_lookback(rs, c) ==
    LET row == rs[c + 1] IN
    IF row.post_type \in ContentTypes
    THEN IF next_is_attachment(rs, c)
         THEN Step(<<corrected_paired(row, rs[c + 2])>>, <<c + 2>>, rs, c + 2)
         ELSE IF c >= 1 /\ rs[c].post_type = "attachment"
         THEN Step(<<corrected_paired(row, rs[c])>>, <<c>>, rs, c + 1)
         ELSE Step(<<corrected_unpaired(row)>>, <<0>>, rs, c + 1)
    ELSE Step(<<>>, <<>>, rs, c + 1)

\* merge_attachments_corrected.py, the body of the while loop
merge_attachments_corrected_iteration(rs, c) ==
    LET row == rs[c + 1] IN
    IF row.post_type \in ContentTypes
    THEN IF next_is_attachment(rs, c)
         THEN Step(<<corrected_paired(row, rs[c + 2])>>, <<c + 2>>, rs, c + 2)
         ELSE Step(<<corrected_unpaired(row)>>, <<0>>, rs, c + 1)
    ELSE Step(<<>>, <<>>, rs, c + 1)

\* post[key] = value on a Python dict
SetKey(d, key, value) ==
    [k \in DOMAIN d \cup {key} |-> IF k = key THEN value ELSE d[k]]

\* create_formatted_csv.py, the body of merge_with_attachments' while loop; the
\* post dict is updated in place, so the list changes with it
merge_with_attachments_iteration(posts, c) ==
    LET post == posts[c + 1] IN
    IF post.post_type \in ContentTypes
    THEN IF next_is_attachment(posts, c)
         THEN LET attachment == posts[c + 2]
                  updated == SetKey(SetKey(post, "attachment_url", attachment.attachment_url),
                                    "attachment_id", attachment.post_id)
              IN  Step(<<updated>>, <<c + 2>>, [posts EXCEPT ![c + 1] = updated], c + 2)
         ELSE LET updated == SetKey(SetKey(post, "attachment_url", <<>>),
                                    "attachment_id", "")
              IN  Step(<<updated>>, <<0>>, [posts EXCEPT ![c + 1] = updated], c + 1)
    ELSE Step(<<>>, <<>>, posts, c + 1)

\* merge_attachments.py lines 30-41 and 48-59: the merged record
to_posts_record(row, url, id) ==
    [post_id |-> row.post_id, title |-> row.title,
     post_type |-> row.post_type, post_date |-> row.post_date,
     category |-> row.category, link |-> row.link,
     excerpt |-> row.excerpt, content |-> row.content,
     attachment_url |-> url,
     attachment_id |-> id]

\* a loop body that, after pairing, steps over the attachment only
merge_attachments_to_posts_noskip(rs, c) ==
    LET row == rs[c + 1] IN
    IF row.post_type = "attachment" /\ c + 1 < Len(rs)
       /\ rs[c + 2].post_type \in ContentTypes
    THEN Step(<<to_posts_record(rs[c + 2], row.attachment_url, row.post_id)>>,
              <<c + 1>>, rs, c + 1)
    ELSE IF row.post_type \in ContentTypes
    THEN Step(<<to_posts_record(row, <<>>, "")>>, <<0>>, rs, c + 1)
    ELSE Step(<<>>, <<>>, rs, c + 1)
\* merge_attachments.py, the body of merge_attachments_to_posts' while loop
merge_attachments_to_posts_iteration(rs, c) ==
    LET row == rs[c + 1] IN
    IF row.post_type = "attachment" /\ c + 1 < Len(rs)
       /\ rs[c + 2].post_type \in ContentTypes
    THEN Step(<<to_posts_record(rs[c + 2], row.attachment_url, row.post_id)>>,
              <<c + 1>>, rs, c + 2)
    ELSE IF row.post_type \in ContentTypes
    THEN Step(<<to_posts_record(row, <<>>, "")>>, <<0>>, rs, c + 1)
    ELSE Step(<<>>, <<>>, rs, c + 1)

\* the while loops run from cursor c to their end: the records appended and the
\* cursor the loop leaves (merge_attachments.py lines 21-63,
\* merge_attachments_corrected.py lines 85-140)
Run(out, c) == [out |-> out, i |-> c]

RECURSIVE merge_attachments_to_posts_loop(_, _)
merge_attachments_to_posts_loop(rs, c) ==
    IF c < Len(rs)
    THEN LET step == merge_attachments_to_posts_iteration(rs, c)
             rest == merge_attachments_to_posts_loop(step.rows, step.i)
         IN  Run(step.out \o rest.out, rest.i)
    ELSE Run(<<>>, c)

RECURSIVE merge_attachments_corrected_loop(_, _)
merge_attachments_corrected_loop(rs, c) ==
    IF c < Len(rs)
    THEN LET step == merge_attachments_corrected_iteration(rs, c)
             rest == merge_attachments_corrected_loop(step.rows, step.i)
         IN  Run(step.out \o rest.out, rest.i)
    ELSE Run(<<>>, c)

(***************************************************************************)
(* Inputs                                                                  *)
(***************************************************************************)
MaxRows == 3

Summer_BBQ_Recap == <<"S","u","m","m","e","r"," ","B","B","Q"," ","R","e","c","a","p">>
Kayak_Trip_Tips  == <<"K","a","y","a","k"," ","T","r","i","p"," ","T","i","p","s">>
summer_bbq_recap == <<"s","u","m","m","e","r","-","b","b","q","-","r","e","c","a","p">>
kayaking_adventure_2019 ==
    <<"k","a","y","a","k","i","n","g","-","a","d","v","e","n","t","u","r","e","-",
      "2","0","1","9">>
blog_black == <<"b","l","o","g","_","b","l","a","c","k">>

\* "https://c.io/i/"
UrlDir == <<"h","t","t","p","s",":","/","/","c",".","i","o","/","i","/">>
\* "https://c.io/i/Summer-BBQ-Recap.JPG?w=1"
UrlSummer == UrlDir \o <<"S","u","m","m","e","r","-","B","B","Q","-","R","e","c","a","p",
                         ".","J","P","G","?","w","=","1">>
\* "https://c.io/i/blog_black.png"
UrlGeneric == UrlDir \o blog_black \o <<".","p","n","g">>
\* "https://c.io/i/kayaking-adventure-2019.jpeg"
UrlKayak == UrlDir \o kayaking_adventure_2019 \o <<".","j","p","e","g">>

\* a row of the cleaned table (xml_to_csv_converter.py write_csv: 9 columns)
InputRow(id, type, row_title, date, row_link, url) ==
    [post_id |-> id, title |-> row_title, post_type |-> type, post_date |-> date,
     category |-> IF type = "post" THEN "Blog" ELSE "",
     link |-> row_link, excerpt |-> "", content |-> id,
     attachment_url |-> url]

InputRowSet ==
    { InputRow("101", "post", Summer_BBQ_Recap, "2019-06-01", "/blogfeed/summer-bbq-recap", <<>>),
      InputRow("102", "page", <<"!","!">>, "2019-06-02", "/about", <<>>),
      InputRow("103", "post", Kayak_Trip_Tips, "2019-06-03", "", <<>>),
      InputRow("201", "attachment", <<>>, "2019-06-01", "", UrlSummer),
      InputRow("202", "attachment", <<>>, "2019-06-02", "", UrlGeneric),
      InputRow("203", "attachment", <<>>, "2019-06-03", "", <<>>),
      InputRow("204", "attachment", <<>>, "2019-06-04", "", UrlDir),
      InputRow("205", "attachment", <<>>, "2019-06-05", "", UrlKayak),
      InputRow("301", "nav_menu_item", <<"M","e","n","u">>, "", "", <<>>) }

SeqsUpTo(S, n) == UNION {[1..k -> S] : k \in 0..n}

Variants == {"corrected", "with_attachments", "to_posts"}

NoResult == [match_score |-> -1, needs_review |-> FALSE, reason |-> <<>>]

ScoreIdle ==
    /\ title = <<>>
    /\ filename = <<>>
    /\ score_result = NoResult
    /\ score_pc = "idle"

ExtractIdle ==
    /\ extractor = "none"
    /\ items = <<>>
    /\ item_pos = 0
    /\ parsed_posts = <<>>
    /\ extract_pc = "idle"

SanitizeIdle ==
    /\ sanitizer = "none"
    /\ markup = <<>>
    /\ cleaned = <<>>
    /\ cleaned_again = <<>>
    /\ sanitize_pc = "idle"

ScrapeIdle ==
    /\ scraper = "none"
    /\ table = <<>>
    /\ scrape_rows = <<>>
    /\ scrape_pos = 0
    /\ fetch_log = <<>>
    /\ written_header = <<>>
    /\ written_rows = <<>>
    /\ scrape_pc = "idle"

(***************************************************************************)
(* Spec: a reconciler run from the rows read to the merged list            *)
(***************************************************************************)
Init ==
    /\ variant \in Variants
    /\ input_rows \in SeqsUpTo(InputRowSet, MaxRows)
    /\ rows = input_rows
    /\ i = 0
    /\ merged_posts = <<>>
    /\ paired_from = <<>>
    /\ merge_pc = "loop"
    /\ ScoreIdle
    /\ ExtractIdle
    /\ SanitizeIdle
    /\ ScrapeIdle

Apply(step) ==
    /\ merged_posts' = merged_posts \o step.out
    /\ paired_from' = paired_from \o step.from
    /\ rows' = step.rows
    /\ i' = step.i
    /\ UNCHANGED <<variant, input_rows, merge_pc, score_vars, extract_vars, sanitize_vars, scrape_vars>>

CorrectedIteration ==
    /\ variant = "corrected" /\ merge_pc = "loop" /\ i < Len(rows)
    /\ Apply(merge_attachments_corrected_iteration(rows, i))

WithAttachmentsIteration ==
    /\ variant = "with_attachments" /\ merge_pc = "loop" /\ i < Len(rows)
    /\ Apply(merge_with_attachments_iteration(rows, i))

ToPostsIteration ==
    /\ variant = "to_posts" /\ merge_pc = "loop" /\ i < Len(rows)
    /\ Apply(merge_attachments_to_posts_iteration(rows, i))

\* the loop condition fails: the merged list is written / returned
LoopExit ==
    /\ merge_pc = "loop" /\ ~(i < Len(rows))
    /\ merge_pc' = "returned"
    /\ UNCHANGED <<variant, input_rows, rows, i, merged_posts, paired_from,
                   score_vars, extract_vars, sanitize_vars, scrape_vars>>

Next == CorrectedIteration \/ WithAttachmentsIteration \/ ToPostsIteration \/ LoopExit

Spec == Init /\ [][Next]_vars

(***************************************************************************)
(* SpecScore: one call of check_match_quality                              *)
(***************************************************************************)
MaxTitleLen == 2
MaxFilenameLen == 4

TitleChars == {"i", "M", "g", " "}
FilenameChars == {"i", "m", "g", "_"}

photography == <<"p","h","o","t","o","g","r","a","p","h","y">>

Titles ==
    SeqsUpTo(TitleChars, MaxTitleLen)
    \cup { Summer_BBQ_Recap, Kayak_Trip_Tips, <<"!","!">>, <<"B","l","o","g">>,
           <<"M","y"," ","P","h","o","t","o","g","r","a","p","h","y">> }

Filenames ==
    SeqsUpTo(FilenameChars, MaxFilenameLen)
    \cup { summer_bbq_recap, kayaking_adventure_2019, blog_black, photography,
           <<"B","L","O","G","_","B","l","a","c","k">>,
           <<"b","l","o","g","_","b","l","a","c","k","_","2">>,
           <<"b","l","o","g","r","o","l","l">>,
           <<"t","i","t","l","e","+","s","l","i","d","e","_","2">>,
           <<"t","i","t","l","e","_","2">>,
           <<"-","-","-">> }

MergeIdle ==
    /\ variant = "none"
    /\ input_rows = <<>>
    /\ rows = <<>>
    /\ i = 0
    /\ merged_posts = <<>>
    /\ paired_from = <<>>
    /\ merge_pc = "idle"

InitScore ==
    /\ title \in Titles
    /\ filename \in Filenames
    /\ score_result = NoResult
    /\ score_pc = "call"
    /\ MergeIdle
    /\ ExtractIdle
    /\ SanitizeIdle
    /\ ScrapeIdle

CallCheckMatchQuality ==
    /\ score_pc = "call"
    /\ score_result' = check_match_quality(title, filename)
    /\ score_pc' = "returned"
    /\ UNCHANGED <<title, filename, merge_vars, extract_vars, sanitize_vars, scrape_vars>>

NextScore == CallCheckMatchQuality

SpecScore == InitScore /\ [][NextScore]_vars

(***************************************************************************)
(* BeautifulSoup(html_text, 'html.parser'), as both sanitizers use it.     *)
(*                                                                         *)
(* Markup is a sequence of characters.  The model covers markup written    *)
(* with the characters  < > / & ; = " space newline  and ASCII letters, in *)
(* which every attribute is written name="value" (no quote or ">" in the   *)
(* value); it has no comments, declarations, numeric character references, *)
(* void elements (br, img, ...) or script/style elements.                  *)
(***************************************************************************)
Whitespace == {" ", "\n", "\t", "\r", "\f"}

\* the parse events / the nodes of the tree in document order
Data(t)          == [kind |-> "data",  name |-> <<>>, attrs |-> <<>>, text |-> t]
StartTag(n, a)   == [kind |-> "start", name |-> n,    attrs |-> a,    text |-> <<>>]
EndTag(n)        == [kind |-> "end",   name |-> n,    attrs |-> <<>>, text |-> <<>>]
CommentNode(t)   == [kind |-> "comment", name |-> <<>>, attrs |-> <<>>, text |-> t]

\* the 1-based position of the first character of s at or after position from
\* that is in set, 0 when there is none
find_from(s, from, set) ==
    LET hits == {k \in from..Len(s) : s[k] \in set}
    IN  IF hits = {} THEN 0 ELSE CHOOSE k \in hits : \A j \in hits : k <= j

\* s[a..b] (1-based, inclusive; empty when b < a)
slice(s, a, b) == IF b < a THEN <<>> ELSE SubSeq(s, a, b)

\* s.strip()
RECURSIVE lstrip(_)
lstrip(s) == IF s # <<>> /\ Head(s) \in Whitespace THEN lstrip(Tail(s)) ELSE s
RECURSIVE rstrip(_)
rstrip(s) ==
    IF s # <<>> /\ s[Len(s)] \in Whitespace THEN rstrip(SubSeq(s, 1, Len(s) - 1)) ELSE s
strip(s) == rstrip(lstrip(s))

\* html.parser tagfind_tolerant: a tag name runs to the first of these
NameStop == Whitespace \cup {"/", ">"}

\* the attributes written between the tag name and ">": name="value" pairs
\* separated by whitespace; a name without ="value" has the value ""
RECURSIVE parse_attrs(_)
parse_attrs(s) ==
    LET t == lstrip(s) IN
    IF t = <<>> \/ t = <<"/">> THEN <<>>
    ELSE LET stop   == find_from(t, 1, Whitespace \cup {"="})
             key    == IF stop = 0 THEN t ELSE take(t, stop - 1)
             rest   == IF stop = 0 THEN <<>> ELSE drop(t, stop - 1)
         IN  IF rest # <<>> /\ Head(rest) = "=" /\ Len(rest) >= 2 /\ rest[2] = "\""
             THEN LET close == find_from(rest, 3, {"\""})
                      value == IF close = 0 THEN drop(rest, 2) ELSE slice(rest, 3, close - 1)
                      after == IF close = 0 THEN <<>> ELSE drop(rest, close)
                  IN  <<<<lower(key), value>>>> \o parse_attrs(after)
             ELSE <<<<lower(key), <<>>>>>> \o parse_attrs(rest)

\* BeautifulSoupHTMLParser.handle_entityref: a known entity name becomes its
\* character, an unknown one the text "&name"
known_entity(name) ==
    CASE name = <<"l","t">> -> <<"<">>
      [] name = <<"g","t">> -> <<">">>
      [] name = <<"a","m","p">> -> <<"&">>
      [] OTHER -> <<"&">> \o name

\* html.parser.HTMLParser.goahead with convert_charrefs off, after feed() and
\* close(): the events from position pos on
RECURSIVE goahead(_, _)
goahead(s, pos) ==
    IF pos > Len(s) THEN <<>>
    ELSE
    LET n == Len(s)
        c == s[pos]
        \* an unterminated construct at "<": text up to the next "<", or the "<" alone
        incomplete_tag ==
            LET lt == find_from(s, pos + 1, {"<"}) IN
            IF lt = 0 THEN <<Data(<<"<">>)>> \o goahead(s, pos + 1)
            ELSE <<Data(slice(s, pos, lt - 1))>> \o goahead(s, lt)
    IN
    IF c \notin {"<", "&"}
    THEN LET j == find_from(s, pos, {"<", "&"})
             stop == IF j = 0 THEN n + 1 ELSE j
         IN  <<Data(slice(s, pos, stop - 1))>> \o goahead(s, stop)
    ELSE IF c = "<"
    THEN IF pos < n /\ s[pos + 1] \in Letters
         THEN \* parse_starttag
              LET gt == find_from(s, pos + 1, {">"}) IN
              IF gt = 0 THEN incomplete_tag
              ELSE LET inner   == slice(s, pos + 1, gt - 1)
                       nameend == find_from(inner, 1, NameStop)
                       name    == IF nameend = 0 THEN inner ELSE take(inner, nameend - 1)
                       attrs   == IF nameend = 0 THEN <<>>
                                  ELSE parse_attrs(drop(inner, nameend - 1))
                   IN  IF inner[Len(inner)] = "/"
                       THEN <<StartTag(lower(name), attrs), EndTag(lower(name))>>
                            \o goahead(s, gt + 1)
                       ELSE <<StartTag(lower(name), attrs)>> \o goahead(s, gt + 1)
         ELSE IF pos < n /\ s[pos + 1] = "/"
         THEN \* parse_endtag
              LET gt == find_from(s, pos + 2, {">"}) IN
              IF gt = 0 THEN incomplete_tag
              ELSE IF s[pos + 2] \in Letters
              THEN LET inner   == slice(s, pos + 2, gt - 1)
                       nameend == find_from(inner, 1, NameStop)
                       name    == IF nameend = 0 THEN inner ELSE take(inner, nameend - 1)
                   IN  <<EndTag(lower(name))>> \o goahead(s, gt + 1)
              ELSE IF gt = pos + 2 THEN goahead(s, gt + 1)                \* "</>"
              ELSE <<CommentNode(slice(s, pos + 2, gt - 1))>> \o goahead(s, gt + 1)
         ELSE <<Data(<<"<">>)>> \o goahead(s, pos + 1)
    ELSE \* c = "&"
         IF pos < n /\ s[pos + 1] \in Letters
         THEN LET term == find_from(s, pos + 1, {x \in {s[k] : k \in 1..n} :
                                                    x \notin Letters \cup Digits})
              IN  IF term # 0
                  THEN \* entityref matched: the terminator is consumed when it is ";"
                       <<Data(known_entity(slice(s, pos + 1, term - 1)))>>
                       \o goahead(s, IF s[term] = ";" THEN term + 1 ELSE term)
                  ELSE IF pos + 1 = n
                  THEN <<Data(<<s[n]>>)>>        \* "&x" ends the input: the "&" is skipped
                  ELSE <<Data(slice(s, pos, n))>> \* an unterminated reference stays as it is
         ELSE <<Data(<<"&">>)>> \o goahead(s, pos + 1)

\* BeautifulSoup.endData: the pending text becomes one string node; a node of
\* ASCII whitespace only is replaced by "\n" when it holds a newline, else by " "
text_node(cur) ==
    IF cur = <<>> THEN <<>>
    ELSE IF \A k \in 1..Len(cur) : cur[k] \in Whitespace
         THEN IF \E k \in 1..Len(cur) : cur[k] = "\n"
              THEN <<Data(<<"\n">>)>> ELSE <<Data(<<" ">>)>>
         ELSE <<Data(cur)>>

\* the end tags that close the open tags stack[from..], innermost first
RECURSIVE close_tags(_, _)
close_tags(stack, from) ==
    IF from > Len(stack) THEN <<>>
    ELSE close_tags(stack, from + 1) \o <<EndTag(stack[from])>>

\* the tree BeautifulSoup builds from the parse events, as its nodes in document
\* order with every opened tag closed: handle_starttag pushes a tag,
\* handle_endtag pops to the innermost open tag of that name (_popToTag) and
\* ignores an end tag that closes nothing, the end of input closes what is open
RECURSIVE build_tree(_, _, _)
build_tree(events, stack, cur) ==
    IF events = <<>> THEN text_node(cur) \o close_tags(stack, 1)
    ELSE
    LET e == Head(events) IN
    IF e.kind = "data" THEN build_tree(Tail(events), stack, cur \o e.text)
    ELSE IF e.kind = "start"
    THEN text_node(cur) \o <<e>> \o build_tree(Tail(events), Append(stack, e.name), <<>>)
    ELSE IF e.kind = "end"
    THEN LET open == {k \in 1..Len(stack) : stack[k] = e.name} IN
         IF open = {} THEN text_node(cur) \o build_tree(Tail(events), stack, <<>>)
         ELSE LET at == CHOOSE k \in open : \A j \in open : j <= k IN
              text_node(cur) \o close_tags(stack, at)
              \o build_tree(Tail(events), SubSeq(stack, 1, at - 1), <<>>)
    ELSE text_node(cur) \o <<e>> \o build_tree(Tail(events), stack, <<>>)

\* soup = BeautifulSoup(html_text, 'html.parser')
BeautifulSoup(html_text) == build_tree(goahead(html_text, 1), <<>>, <<>>)

(***************************************************************************)
(* xml_to_csv_converter.py: clean_html                                     *)
(***************************************************************************)
\* soup.get_text(separator=' ', strip=True): the stripped, non-empty strings of
\* the tree joined by ' '
RECURSIVE get_text(_)
get_text(nodes) ==
    IF nodes = <<>> THEN <<>>
    ELSE LET rest == get_text(Tail(nodes))
             t == IF Head(nodes).kind = "data" THEN strip(Head(nodes).text) ELSE <<>>
         IN  IF t = <<>> THEN rest
             ELSE IF rest = <<>> THEN t
             ELSE t \o <<" ">> \o rest

\* re.sub(r'\s+', ' ', text)
RECURSIVE normalize_whitespace(_)
normalize_whitespace(s) ==
    IF s = <<>> THEN <<>>
    ELSE IF Head(s) \in Whitespace
         THEN <<" ">> \o normalize_whitespace(lstrip(s))
         ELSE <<Head(s)>> \o normalize_whitespace(Tail(s))

\* html.entities.html5, the entries whose names are spelled with the letters the
\* model's text holds ("U+226A" stands for the character MUCH LESS-THAN)
html5_keys ==
    { <<"l","t",";">>, <<"l","t">>, <<"g","t",";">>, <<"g","t">>,
      <<"a","m","p",";">>, <<"a","m","p">>, <<"l","l",";">> }
html5(key) ==
    CASE key \in {<<"l","t",";">>, <<"l","t">>} -> <<"<">>
      [] key \in {<<"g","t",";">>, <<"g","t">>} -> <<">">>
      [] key \in {<<"a","m","p",";">>, <<"a","m","p">>} -> <<"&">>
      [] key = <<"l","l",";">> -> <<"U+226A">>

\* html.unescape's replace_charref for a named reference s (the text after "&")
replace_charref(s) ==
    IF s \in html5_keys THEN html5(s)
    ELSE LET prefixes == {x \in 2..(Len(s) - 1) : take(s, x) \in html5_keys} IN
         IF prefixes = {} THEN <<"&">> \o s
         ELSE LET x == CHOOSE x \in prefixes : \A y \in prefixes : y <= x
              IN  html5(take(s, x)) \o drop(s, x)

\* the characters that end a reference name in html.unescape's pattern
\* &([^\t\n\f <&#;]{1,32};?)
CharrefStop == {"\t", "\n", "\f", " ", "<", "&", "#", ";"}

\* html.unescape(text)
RECURSIVE unescape(_)
unescape(text) ==
    IF text = <<>> THEN <<>>
    ELSE IF Head(text) # "&" THEN <<Head(text)>> \o unescape(Tail(text))
    ELSE LET rest == Tail(text)
             stop == find_from(rest, 1, CharrefStop)
             run  == IF stop = 0 THEN Len(rest) ELSE stop - 1
             len  == IF run > 32 THEN 32 ELSE run
             semi == len < Len(rest) /\ rest[len + 1] = ";"
             used == IF semi THEN len + 1 ELSE len
         IN  IF len = 0 THEN <<"&">> \o unescape(rest)
             ELSE replace_charref(take(rest, used)) \o unescape(drop(rest, used))

clean_html(html_text) ==
    IF html_text = <<>> THEN <<>>
    ELSE LET soup == BeautifulSoup(html_text)
             text == get_text(soup)
         IN  strip(unescape(normalize_whitespace(text)))

(***************************************************************************)
(* create_formatted_csv.py: clean_html_preserve_formatting                 *)
(***************************************************************************)
allowed_tags ==
    { <<"p">>, <<"h","1">>, <<"h","2">>, <<"h","3">>, <<"h","4">>, <<"h","5">>,
      <<"h","6">>, <<"u","l">>, <<"o","l">>, <<"l","i">>,
      <<"b","l","o","c","k","q","u","o","t","e">>, <<"d","i","v">>,
      <<"s","t","r","o","n","g">>, <<"b">>, <<"e","m">>, <<"i">>, <<"u">>,
      <<"b","r">>, <<"a">> }

Span == <<"s","p","a","n">>
Href == <<"h","r","e","f">>

\* the attributes the first pass deletes from every tag
removed_attrs ==
    { <<"s","t","y","l","e">>, <<"c","l","a","s","s">>,
      <<"d","a","t","a","-","s","q","s","p","-","t","e","x","t","-","b","l","o","c","k",
        "-","c","o","n","t","e","n","t">>,
      <<"d","a","t","a","-","r","t","e","-","p","r","e","s","e","r","v","e","-",
        "e","m","p","t","y">> }

\* first pass, lines 34-49, on one tag
clean_attrs(name, attrs) ==
    LET kept == SelectSeq(attrs, LAMBDA a : a[1] \notin removed_attrs)
        hrefs == SelectSeq(kept, LAMBDA a : a[1] = Href)
    IN  IF name = <<"a">> /\ hrefs # <<>> THEN <<hrefs[1]>> ELSE kept

first_pass(nodes) ==
    [k \in 1..Len(nodes) |->
        IF nodes[k].kind = "start"
        THEN StartTag(nodes[k].name, clean_attrs(nodes[k].name, nodes[k].attrs))
        ELSE nodes[k]]

\* second pass, lines 52-63: a span, or a tag not in allowed_tags, is unwrapped:
\* the tag goes, its children stay in place
is_unwrapped(name) == name = Span \/ name \notin allowed_tags

second_pass(nodes) ==
    SelectSeq(nodes, LAMBDA e : ~(e.kind \in {"start", "end"} /\ is_unwrapped(e.name)))

\* the "minimal" output formatter: & < > become entities
RECURSIVE escape_text(_)
escape_text(t) ==
    IF t = <<>> THEN <<>>
    ELSE (CASE Head(t) = "&" -> <<"&","a","m","p",";">>
            [] Head(t) = "<" -> <<"&","l","t",";">>
            [] Head(t) = ">" -> <<"&","g","t",";">>
            [] OTHER -> <<Head(t)>>) \o escape_text(Tail(t))

RECURSIVE decode_attrs(_)
decode_attrs(attrs) ==
    IF attrs = <<>> THEN <<>>
    ELSE <<" ">> \o Head(attrs)[1] \o <<"=", "\"">> \o escape_text(Head(attrs)[2])
         \o <<"\"">> \o decode_attrs(Tail(attrs))

\* str(soup)
RECURSIVE decode(_)
decode(nodes) ==
    IF nodes = <<>> THEN <<>>
    ELSE LET e == Head(nodes) IN
         (CASE e.kind = "data"  -> escape_text(e.text)
            [] e.kind = "start" -> <<"<">> \o e.name \o decode_attrs(e.attrs) \o <<">">>
            [] e.kind = "end"   -> <<"<", "/">> \o e.name \o <<">">>
            [] OTHER            -> <<"<","!","-","-">> \o e.text \o <<"-","-",">">>)
         \o decode(Tail(nodes))

DivOpen  == <<"<","d","i","v",">">>
DivClose == <<"<","/","d","i","v",">">>

HtmlBodyOpen  == <<"<","h","t","m","l",">","<","b","o","d","y",">">>
HtmlBodyClose == <<"<","/","b","o","d","y",">","<","/","h","t","m","l",">">>

\* re.sub(r'^<html><body>', '', s)
strip_leading_html_body(s) ==
    IF startswith(s, HtmlBodyOpen) THEN drop(s, Len(HtmlBodyOpen)) ELSE s

\* re.sub(r'^<div>\s*', '', s)
strip_leading_div(s) ==
    IF startswith(s, DivOpen) THEN lstrip(drop(s, Len(DivOpen))) ELSE s

\* s.endswith(p)
endswith(s, p) == Len(p) <= Len(s) /\ SubSeq(s, Len(s) - Len(p) + 1, Len(s)) = p

\* re.sub(r'</body></html>$', '', s): "$" also matches before a final newline
strip_trailing_html_body(s) ==
    IF endswith(s, HtmlBodyClose)
    THEN take(s, Len(s) - Len(HtmlBodyClose))
    ELSE IF endswith(s, HtmlBodyClose \o <<"\n">>)
    THEN take(s, Len(s) - Len(HtmlBodyClose) - 1) \o <<"\n">>
    ELSE s

\* re.sub(r'\s*</div>$', '', s): "$" also matches before a final newline
strip_trailing_div(s) ==
    IF endswith(s, DivClose)
    THEN rstrip(take(s, Len(s) - Len(DivClose)))
    ELSE IF endswith(s, DivClose \o <<"\n">>)
    THEN rstrip(take(s, Len(s) - Len(DivClose) - 1)) \o <<"\n">>
    ELSE s

\* re.sub(r'\n\s*\n', '\n', s): from a newline to the last newline of the
\* whitespace that follows it
RECURSIVE collapse_blank_lines(_)
collapse_blank_lines(s) ==
    IF s = <<>> THEN <<>>
    ELSE IF Head(s) # "\n" THEN <<Head(s)>> \o collapse_blank_lines(Tail(s))
    ELSE LET rest == Tail(s)
             run  == Len(rest) - Len(lstrip(rest))
             nls  == {k \in 1..run : rest[k] = "\n"}
         IN  IF nls = {} THEN <<"\n">> \o collapse_blank_lines(rest)
             ELSE <<"\n">> \o collapse_blank_lines(
                                 drop(rest, CHOOSE k \in nls : \A j \in nls : j <= k))

clean_html_preserve_formatting(html_text) ==
    IF html_text = <<>> THEN <<>>
    ELSE LET soup         == BeautifulSoup(html_text)
             cleaned_html == decode(second_pass(first_pass(soup)))
             unwrapped    == strip_trailing_html_body(strip_leading_html_body(cleaned_html))
         IN  strip(collapse_blank_lines(strip_trailing_div(strip_leading_div(unwrapped))))

(***************************************************************************)
(* SpecSanitize: a sanitizer called on markup, then on its own result      *)
(***************************************************************************)
MaxTokens == 3

HtmlTokens ==
    { <<"<","d","i","v",">">>, <<"<","/","d","i","v",">">>,
      <<"<","b"," ","c","l","a","s","s","=","\"","c","\"",">">>, <<"<","/","b",">">>,
      <<"<","s","p","a","n",">">>,
      <<"<","p"," ","i","d","=","\"","c","\"",">">>,
      <<"<","a"," ","n","a","m","e","=","\"","c","\"",">">>,
      <<"<","a"," ","h","r","e","f","=","\"","u","\""," ","i","d","=","\"","c","\"",">">>,
      <<"&","l","t",";">>, <<"&","g","t",";">>, <<"&","a","m","p",";">>,
      <<"l","t",";">>, <<"x">>, <<" ">>, <<"\n">> }

RECURSIVE concat(_)
concat(parts) == IF parts = <<>> THEN <<>> ELSE Head(parts) \o concat(Tail(parts))

HtmlTexts == {concat(parts) : parts \in SeqsUpTo(HtmlTokens, MaxTokens)}

Sanitizers == {"clean_html", "clean_html_preserve_formatting"}

sanitize(which, text) ==
    IF which = "clean_html" THEN clean_html(text)
    ELSE clean_html_preserve_formatting(text)

InitSanitize ==
    /\ sanitizer \in Sanitizers
    /\ markup \in HtmlTexts
    /\ cleaned = <<>>
    /\ cleaned_again = <<>>
    /\ sanitize_pc = "call"
    /\ MergeIdle
    /\ ScoreIdle
    /\ ExtractIdle
    /\ ScrapeIdle

SanitizeOnce ==
    /\ sanitize_pc = "call"
    /\ cleaned' = sanitize(sanitizer, markup)
    /\ sanitize_pc' = "once"
    /\ UNCHANGED <<sanitizer, markup, cleaned_again, merge_vars, score_vars, extract_vars, scrape_vars>>

SanitizeAgain ==
    /\ sanitize_pc = "once"
    /\ cleaned_again' = sanitize(sanitizer, cleaned)
    /\ sanitize_pc' = "twice"
    /\ UNCHANGED <<sanitizer, markup, cleaned, merge_vars, score_vars, extract_vars, scrape_vars>>

NextSanitize == SanitizeOnce \/ SanitizeAgain

SpecSanitize == InitSanitize /\ [][NextSanitize]_vars

(***************************************************************************)
(* The extractors: parse_xml_file, parse_xml_with_formatting               *)
(***************************************************************************)
\* An item is modelled by what each re.search on it captures: a field is <<>>
\* when its pattern finds nothing, else <<g>> with g the text between its tags.

\* match.group(1) if match else ""
group(field) == IF field = <<>> THEN <<>> ELSE field[1]

\* xml_to_csv_converter.py lines 57-74
parse_xml_file_link_unprefixed(item) ==
    IF item.link # <<>> THEN strip(item.link[1])
    ELSE IF item.post_name # <<>>
    THEN LET post_name == strip(item.post_name[1]) IN
         IF startswith(post_name, <<"/">>) THEN post_name
         ELSE <<"/">> \o post_name
    ELSE <<>>
parse_xml_file_link(item) ==
    IF item.link # <<>> THEN strip(item.link[1])
    ELSE IF item.post_name # <<>>
    THEN LET post_name == strip(item.post_name[1]) IN
         IF startswith(post_name, <<"/">>) THEN post_name
         ELSE IF startswith(post_name, <<"b","l","o","g","f","e","e","d","/">>)
                 \/ startswith(post_name, <<"2","0","1","7","/">>)
         THEN <<"/">> \o post_name
         ELSE <<"/","b","l","o","g","f","e","e","d","/">> \o post_name
    ELSE <<>>

\* create_formatted_csv.py lines 104-114
parse_xml_with_formatting_link(item) ==
    IF item.link # <<>> THEN strip(item.link[1])
    ELSE IF item.post_name # <<>>
    THEN LET post_name == strip(item.post_name[1]) IN
         IF ~startswith(post_name, <<"/">>) THEN <<"/">> \o post_name ELSE post_name
    ELSE <<>>

\* <wp:post_id>(\d+)</wp:post_id>: only an element of digits, and at least one, matches
extract_post_id(item) ==
    IF item.post_id # <<>> /\ item.post_id[1] # <<>>
       /\ \A k \in 1..Len(item.post_id[1]) : item.post_id[1][k] \in Digits
    THEN item.post_id[1] ELSE <<>>

\* post_date, with pubDate as the fallback
extract_post_date(item) ==
    IF item.post_date # <<>> THEN strip(item.post_date[1])
    ELSE IF item.pubDate # <<>> THEN strip(item.pubDate[1]) ELSE <<>>

extract_attachment_url(item) ==
    IF group(item.post_type) = <<"a","t","t","a","c","h","m","e","n","t">>
    THEN group(item.attachment_url) ELSE <<>>

\* full_content[:1000] + '...' if len(full_content) > 1000 else full_content
truncate_content(full_content) ==
    IF Len(full_content) > 1000
    THEN take(full_content, 1000) \o <<".",".",".">> ELSE full_content

\* the loop body of parse_xml_file up to the test of line 121
parse_xml_file_item(item) ==
    [ title          |-> IF item.title # <<>> THEN clean_html(item.title[1]) ELSE <<>>,
      link           |-> parse_xml_file_link(item),
      post_id        |-> extract_post_id(item),
      post_type      |-> group(item.post_type),
      post_date      |-> extract_post_date(item),
      category       |-> group(item.category),
      excerpt        |-> IF item.excerpt # <<>> THEN clean_html(item.excerpt[1]) ELSE <<>>,
      content        |-> IF item.content # <<>>
                         THEN truncate_content(clean_html(item.content[1])) ELSE <<>>,
      attachment_url |-> extract_attachment_url(item) ]

\* the loop body of parse_xml_with_formatting up to the test of line 158
parse_xml_with_formatting_item(item) ==
    [ title          |-> IF item.title # <<>> THEN strip(item.title[1]) ELSE <<>>,
      link           |-> parse_xml_with_formatting_link(item),
      post_id        |-> extract_post_id(item),
      post_type      |-> group(item.post_type),
      post_date      |-> extract_post_date(item),
      category       |-> group(item.category),
      excerpt        |-> IF item.excerpt # <<>>
                         THEN clean_html_preserve_formatting(item.excerpt[1]) ELSE <<>>,
      content        |-> IF item.content # <<>>
                         THEN clean_html_preserve_formatting(item.content[1]) ELSE <<>>,
      attachment_url |-> extract_attachment_url(item) ]

has_all_data(post) == post.post_id # <<>> /\ post.title # <<>> /\ post.link # <<>>
\* if post.get('post_id') or post.get('title') or post.get('link')
has_some_data(post) == post.post_id # <<>> \/ post.title # <<>> \/ post.link # <<>>

(***************************************************************************)
(* SpecExtract: an extractor run over the items of an export               *)
(***************************************************************************)
MaxItems == 2

NoFields ==
    [ title |-> <<>>, link |-> <<>>, post_name |-> <<>>, post_id |-> <<>>,
      post_type |-> <<>>, post_date |-> <<>>, pubDate |-> <<>>, category |-> <<>>,
      excerpt |-> <<>>, content |-> <<>>, attachment_url |-> <<>> ]

TypePost == <<"p","o","s","t">>
TypeAttachment == <<"a","t","t","a","c","h","m","e","n","t">>
PhotoUrl == <<"h","t","t","p",":","/","/","c",".","i","o","/","p",".","j","p","g">>

ItemSet ==
    { NoFields,
      [NoFields EXCEPT !.title = <<<<>>>>, !.link = <<<<" ">>>>, !.post_id = <<<<"x","7">>>>,
                       !.content = <<<<"x">>>>],
      [NoFields EXCEPT !.title = <<<<" ","H","i","\n">>>>, !.post_type = <<TypePost>>,
                       !.pubDate = <<<<" ","d"," ">>>>],
      [NoFields EXCEPT !.title = <<<<"<","b",">","<","/","b",">">>>>,
                       !.excerpt = <<<<"<","d","i","v",">","x","<","/","d","i","v",">">>>>],
      [NoFields EXCEPT !.post_id = <<<<"7">>>>, !.post_type = <<TypeAttachment>>,
                       !.attachment_url = <<PhotoUrl>>],
      [NoFields EXCEPT !.post_id = <<<<"4","2">>>>, !.post_type = <<TypePost>>,
                       !.attachment_url = <<PhotoUrl>>, !.category = <<<<"c">>>>],
      [NoFields EXCEPT !.link = <<<<" ","/","l","\n">>>>, !.post_name = <<<<"a">>>>,
                       !.post_date = <<<<"d">>>>, !.pubDate = <<<<"e">>>>],
      [NoFields EXCEPT !.link = <<<<>>>>, !.post_name = <<<<"a">>>>],
      [NoFields EXCEPT !.post_name = <<<<"a">>>>],
      [NoFields EXCEPT !.post_name = <<<<"/","a">>>>],
      [NoFields EXCEPT !.post_name = <<<<" ","a"," ">>>>],
      [NoFields EXCEPT !.post_name = <<<<"b","l","o","g","f","e","e","d","/","a">>>>],
      [NoFields EXCEPT !.post_name = <<<<"2","0","1","7","/","a">>>>,
                       !.title = <<<<"&","a","m","p",";">>>>],
      [NoFields EXCEPT !.post_name = <<<<>>>>] }

Extractors == {"parse_xml_file", "parse_xml_with_formatting"}

InitExtract ==
    /\ extractor \in Extractors
    /\ items \in SeqsUpTo(ItemSet, MaxItems)
    /\ item_pos = 0
    /\ parsed_posts = <<>>
    /\ extract_pc = "loop"
    /\ MergeIdle
    /\ ScoreIdle
    /\ SanitizeIdle
    /\ ScrapeIdle

\* one pass of the for loop, lines 46-122
ParseXmlFileItem ==
    /\ extractor = "parse_xml_file" /\ extract_pc = "loop" /\ item_pos < Len(items)
    /\ LET post == parse_xml_file_item(items[item_pos + 1]) IN
       parsed_posts' = IF has_some_data(post) THEN Append(parsed_posts, post) ELSE parsed_posts
    /\ item_pos' = item_pos + 1
    /\ UNCHANGED <<extractor, items, extract_pc, merge_vars, score_vars, sanitize_vars, scrape_vars>>

\* one pass of the for loop, lines 97-159
ParseXmlWithFormattingItem ==
    /\ extractor = "parse_xml_with_formatting" /\ extract_pc = "loop" /\ item_pos < Len(items)
    /\ LET post == parse_xml_with_formatting_item(items[item_pos + 1]) IN
       parsed_posts' = IF has_some_data(post) THEN Append(parsed_posts, post) ELSE parsed_posts
    /\ item_pos' = item_pos + 1
    /\ UNCHANGED <<extractor, items, extract_pc, merge_vars, score_vars, sanitize_vars, scrape_vars>>

\* the items are exhausted: return posts
ExtractReturn ==
    /\ extract_pc = "loop" /\ ~(item_pos < Len(items))
    /\ extract_pc' = "returned"
    /\ UNCHANGED <<extractor, items, item_pos, parsed_posts, merge_vars, score_vars, sanitize_vars, scrape_vars>>

NextExtract == ParseXmlFileItem \/ ParseXmlWithFormattingItem \/ ExtractReturn

SpecExtract == InitExtract /\ [][NextExtract]_vars

(***************************************************************************)
(* The live resolvers: scrape_images.py, scrape_images_v2.py               *)
(***************************************************************************)
\* urlsplit: the network location, the text between "//" and the first of "/", "?", "#"
netloc_of(rest) ==
    IF startswith(rest, <<"/", "/">>)
    THEN take(drop(rest, 2), Len(drop(rest, 2)) - Len(strip_netloc(rest)))
    ELSE <<>>

\* urllib.parse.urljoin(base, url), for an http(s) base and a url that is empty,
\* absolute with a network location, protocol-relative, root-relative, or a
\* relative path without "." segments, query or fragment
urljoin(base, url) ==
    LET b      == split_scheme(base)
        origin == b.scheme \o <<":", "/", "/">> \o netloc_of(b.rest)
        bpath  == before_first(before_first(strip_netloc(b.rest), "#"), "?")
    IN  IF url = <<>> THEN base
        ELSE IF split_scheme(url).scheme # <<>> THEN url
        ELSE IF startswith(url, <<"/", "/">>) THEN b.scheme \o <<":">> \o url
        ELSE IF startswith(url, <<"/">>) THEN origin \o url
        ELSE IF rfind(bpath, "/") = 0 THEN origin \o <<"/">> \o url
        ELSE origin \o take(bpath, rfind(bpath, "/")) \o url

\* get_header_image returns None
None == <<>>

\* a or b or c on attribute values: the first that is neither None nor ""
RECURSIVE first_truthy(_)
first_truthy(values) ==
    IF values = <<>> THEN None
    ELSE IF Head(values) # <<>> THEN Head(values)
    ELSE first_truthy(Tail(values))

\* A fetched page is modelled by what BeautifulSoup's lookups on it return:
\* sel[selector] is <<>> when soup.select_one(selector) is None and <<img>>
\* otherwise, img holding the tag's data-src, data-image and src (<<>> for an
\* attribute that is absent or ""); og and tw are <<>> when soup.find finds no
\* such meta tag and <<content>> otherwise.

\* scrape_images_v2.py lines 60-68
selectors ==
    << ".blog-item-top-wrapper img",
       "article .image-block img",
       ".blog-item-wrapper .sqs-block-image img",
       ".BlogItem-image img",
       "figure.blog-item-top-wrapper img",
       ".entry-header img",
       ".sqs-block-image-figure img" >>

\* scrape_images.py lines 33, 40, 47
selectors_v1 ==
    << ".blog-item-top-wrapper img",
       "article img, .sqs-block-image img",
       ".blog-item-content-wrapper img" >>

Logo == <<"l","o","g","o">>
Icon == <<"i","c","o","n">>

\* 'logo' not in img_url.lower() and 'icon' not in img_url.lower()
not_logo_or_icon(img_url) ==
    ~contains(lower(img_url), Logo) /\ ~contains(lower(img_url), Icon)

\* scrape_images_v2.py lines 77-80
absolute_url(url, img_url) ==
    IF startswith(img_url, <<"/", "/">>) THEN <<"h","t","t","p","s",":">> \o img_url
    ELSE IF startswith(img_url, <<"/">>) THEN urljoin(url, img_url)
    ELSE img_url

\* scrape_images_v2.py lines 70-84, from the k-th selector on: the URL returned,
\* None when the loop ends without returning
RECURSIVE select_image(_, _, _)
select_image(page, url, k) ==
    IF k > Len(selectors) THEN None
    ELSE LET img == page.sel[selectors[k]] IN
         IF img = <<>> THEN select_image(page, url, k + 1)
         ELSE LET img_url == first_truthy(<<img[1].data_src, img[1].data_image, img[1].src>>) IN
              IF img_url # <<>> /\ not_logo_or_icon(absolute_url(url, img_url))
              THEN absolute_url(url, img_url)
              ELSE select_image(page, url, k + 1)

\* scrape_images_v2.py lines 86-95
meta_image(page) ==
    IF page.og # <<>> /\ page.og[1] # <<>> THEN page.og[1]
    ELSE IF page.tw # <<>> /\ page.tw[1] # <<>> THEN page.tw[1]
    ELSE None

\* scrape_images_v2.py lines 55-95: what the try block returns for a parsed page
header_image_v2(page, url) ==
    IF select_image(page, url, 1) # None THEN select_image(page, url, 1)
    ELSE meta_image(page)

\* scrape_images.py lines 33-51, from the k-th lookup on
RECURSIVE select_image_v1(_, _)
select_image_v1(page, k) ==
    IF k > Len(selectors_v1) THEN None
    ELSE LET img == page.sel[selectors_v1[k]] IN
         IF img # <<>> /\ img[1].data_src # <<>> THEN img[1].data_src
         ELSE IF img # <<>> /\ img[1].src # <<>> THEN img[1].src
         ELSE select_image_v1(page, k + 1)

\* scrape_images.py lines 28-58
header_image_v1(page) ==
    IF select_image_v1(page, 1) # None THEN select_image_v1(page, 1)
    ELSE IF page.og # <<>> /\ page.og[1] # <<>> THEN page.og[1]
    ELSE None

\* What a fetch meets: a response that parses to a page, or an exception raised
\* inside the try block: requests.HTTPError by raise_for_status on a non-2xx
\* status, requests.ConnectionError or requests.Timeout by the request, any
\* other exception by the parser.
Failures == {"http_error", "connection_error", "timeout", "parse_error"}

except_requests_only(which, kind) ==
    IF kind \in {"http_error", "connection_error", "timeout"}
    THEN "requests.RequestException" ELSE "none"
\* the except clause that catches the exception; "none" when it propagates
\* (scrape_images.py lines 60-65, scrape_images_v2.py lines 97-108)
except_clause(which, kind) ==
    IF which = "scrape_images_v2" /\ kind = "http_error" THEN "requests.HTTPError"
    ELSE IF kind \in {"http_error", "connection_error", "timeout"}
    THEN "requests.RequestException"
    ELSE "Exception"

\* get_header_image: the value returned, or raised when the exception leaves the call
get_header_image(which, url, outcome) ==
    IF outcome.kind = "ok"
    THEN [raised |-> FALSE,
          value  |-> IF which = "scrape_images_v2" THEN header_image_v2(outcome.page, url)
                     ELSE header_image_v1(outcome.page)]
    ELSE [raised |-> except_clause(which, outcome.kind) = "none", value |-> None]

\* base_url, lines 71 / 114
base_url == <<"h","t","t","p","s",":","/","/","w","w","w",".","t","h","e","p","o","i","n","t","v","a",".","c","o","m">>

\* fieldnames of the DictWriter, lines 117-118 / 165-166
fieldnames ==
    << "post_id", "title", "post_type", "post_date", "category",
       "link", "excerpt", "content", "attachment_url", "attachment_id" >>

\* row['attachment_url'] = image_url
image_found(row, image_url) == SetKey(row, "attachment_url", image_url)

\* row['attachment_url'] = ''; row['attachment_id'] = ''
image_missing(row) == SetKey(SetKey(row, "attachment_url", <<>>), "attachment_id", "")

\* DictWriter._dict_to_list: ValueError when the dict has a key that is no
\* fieldname (extrasaction='raise')
has_extra_fields(row) == \E k \in DOMAIN row : \A f \in 1..Len(fieldnames) : fieldnames[f] # k

\* the row as written: the fieldnames' values, '' for a missing key
dict_to_list(row) ==
    [k \in {fieldnames[f] : f \in 1..Len(fieldnames)} |->
        IF k \in DOMAIN row THEN row[k] ELSE ""]

(***************************************************************************)
(* SpecScrape: update_csv_with_real_images over a table                    *)
(***************************************************************************)
MaxTableRows == 2

Img(data_src, data_image, src) ==
    [data_src |-> data_src, data_image |-> data_image, src |-> src]

SelectorNames ==
    {selectors[k] : k \in 1..Len(selectors)} \cup {selectors_v1[k] : k \in 1..Len(selectors_v1)}

\* a page with no image and no meta tag
EmptyPage == [sel |-> [k \in SelectorNames |-> <<>>], og |-> <<>>, tw |-> <<>>]

WithImg(page, selector, img) == [page EXCEPT !.sel[selector] = <<img>>]

PageSet ==
    { EmptyPage,
      \* <div class="blog-item-top-wrapper"><img data-src="//i.io/a.jpg" src="https://i.io/s.jpg">
      WithImg(EmptyPage, ".blog-item-top-wrapper img",
              Img(<<"/","/","i",".","i","o","/","a",".","j","p","g">>, <<>>, <<"h","t","t","p","s",":","/","/","i",".","i","o","/","s",".","j","p","g">>)),
      \* <article><div class="image-block"><img src="/s/b.png">
      WithImg(WithImg(EmptyPage, "article .image-block img", Img(<<>>, <<>>, <<"/","s","/","b",".","p","n","g">>)),
              "article img, .sqs-block-image img", Img(<<>>, <<>>, <<"/","s","/","b",".","p","n","g">>)),
      \* a logo in the top wrapper, the picture in the entry header
      WithImg(WithImg(EmptyPage, ".blog-item-top-wrapper img",
                      Img(<<>>, <<>>, <<"h","t","t","p","s",":","/","/","i",".","i","o","/","l","o","g","o",".","p","n","g">>)),
              ".entry-header img", Img(<<>>, <<"h","t","t","p","s",":","/","/","i",".","i","o","/","c",".","j","p","g">>, <<>>)),
      \* <meta property="og:image" content="https://i.io/site-logo.png"> and a twitter:image
      [EmptyPage EXCEPT !.og = <<<<"h","t","t","p","s",":","/","/","i",".","i","o","/","s","i","t","e","-","l","o","g","o",".","p","n","g">>>>,
                        !.tw = <<<<"h","t","t","p","s",":","/","/","i",".","i","o","/","t",".","j","p","g">>>>],
      \* <meta name="twitter:image" content="https://i.io/icon.png">
      [EmptyPage EXCEPT !.tw = <<<<"h","t","t","p","s",":","/","/","i",".","i","o","/","i","c","o","n",".","p","n","g">>>>],
      \* an img without attributes in the top wrapper, one with src="" in the
      \* content wrapper, and an og:image
      [WithImg(WithImg(EmptyPage, ".blog-item-top-wrapper img", Img(<<>>, <<>>, <<>>)),
               ".blog-item-content-wrapper img", Img(<<>>, <<>>, <<>>))
         EXCEPT !.og = <<<<"h","t","t","p","s",":","/","/","i",".","i","o","/","o",".","j","p","g">>>>],
      \* <div class="blog-item-top-wrapper"><img src="/Icon.png"> and an og:image without content
      [WithImg(EmptyPage, ".blog-item-top-wrapper img", Img(<<>>, <<>>, <<"/","I","c","o","n",".","p","n","g">>))
         EXCEPT !.og = <<<<>>>>] }

Outcomes ==
    {[kind |-> "ok", page |-> page] : page \in PageSet}
    \cup {[kind |-> kind, page |-> EmptyPage] : kind \in Failures}

\* a row of the merged table (10 columns)
TableRow(id, type, row_link, url, att_id) ==
    [post_id |-> id, title |-> "T" \o id, post_type |-> type, post_date |-> "2019-06-01",
     category |-> "news", link |-> row_link, excerpt |-> "e" \o id, content |-> "c" \o id,
     attachment_url |-> url, attachment_id |-> att_id]

\* the same row in the annotated table merge_attachments_corrected writes (13 columns)
Annotated(row) ==
    [k \in DOMAIN row \cup {"attachment_filename", "needs_review", "review_reason"} |->
        IF k \in DOMAIN row THEN row[k]
        ELSE IF k = "attachment_filename" THEN "old"
        ELSE IF k = "needs_review" THEN "YES"
        ELSE "No match - likely stock photo"]

OldUrl == <<"h","t","t","p","s",":","/","/","c",".","i","o","/","i","/","o","l","d",".","j","p","g">>

MergedRowSet ==
    { TableRow("101", "post", <<"/","b","l","o","g","f","e","e","d","/","a">>, OldUrl, "201"),
      TableRow("102", "post", <<>>, OldUrl, "202"),
      TableRow("103", "page", <<"/","a","b","o","u","t">>, OldUrl, "203"),
      TableRow("104", "post", <<"h","t","t","p","s",":","/","/","o",".","i","o","/","p">>, <<>>, "") }

Tables ==
    SeqsUpTo(MergedRowSet, MaxTableRows)
    \cup {[k \in DOMAIN t |-> Annotated(t[k])] : t \in SeqsUpTo(MergedRowSet, MaxTableRows)}

Scrapers == {"scrape_images", "scrape_images_v2"}

\* rows = list(reader)
InitScrape ==
    /\ scraper \in Scrapers
    /\ table \in Tables
    /\ scrape_rows = table
    /\ scrape_pos = 0
    /\ fetch_log = <<>>
    /\ written_header = <<>>
    /\ written_rows = <<>>
    /\ scrape_pc = "loop"
    /\ MergeIdle
    /\ ScoreIdle
    /\ ExtractIdle
    /\ SanitizeIdle

\* one pass of the for loop of update_csv_with_real_images
HandleRow(which) ==
    /\ scraper = which /\ scrape_pc = "loop" /\ scrape_pos < Len(scrape_rows)
    /\ LET row == scrape_rows[scrape_pos + 1] IN
       IF row.post_type # "post" \/ row.link = <<>>
       THEN /\ scrape_pos' = scrape_pos + 1
            /\ UNCHANGED <<scrape_rows, fetch_log, scrape_pc>>
       ELSE \E outcome \in Outcomes :
              LET full_url == urljoin(base_url, row.link)
                  result   == get_header_image(which, full_url, outcome)
              IN  /\ fetch_log' = Append(fetch_log, [pos |-> scrape_pos + 1, url |-> full_url,
                                                     failed |-> outcome.kind # "ok"])
                  /\ IF result.raised
                     THEN /\ scrape_pc' = "failed"
                          /\ UNCHANGED <<scrape_rows, scrape_pos>>
                     ELSE /\ scrape_rows' =
                               [scrape_rows EXCEPT ![scrape_pos + 1] =
                                   IF result.value # None THEN image_found(row, result.value)
                                   ELSE image_missing(row)]
                          /\ scrape_pos' = scrape_pos + 1
                          /\ UNCHANGED scrape_pc
    /\ UNCHANGED <<scraper, table, written_header, written_rows,
                   merge_vars, score_vars, extract_vars, sanitize_vars>>

\* scrape_images.py lines 85-114
ScrapeImagesRow == HandleRow("scrape_images")

\* scrape_images_v2.py lines 131-162
ScrapeImagesV2Row == HandleRow("scrape_images_v2")

\* the loop is over: the output file is opened, the header written, then the
\* rows one by one until one raises (lines 116-123 / 164-171)
WriteCsv ==
    /\ scrape_pc = "loop" /\ scrape_pos = Len(scrape_rows)
    /\ written_header' = fieldnames
    /\ LET bad  == {k \in 1..Len(scrape_rows) : has_extra_fields(scrape_rows[k])}
           good == IF bad = {} THEN Len(scrape_rows)
                   ELSE (CHOOSE k \in bad : \A j \in bad : k <= j) - 1
       IN  /\ written_rows' = [k \in 1..good |-> dict_to_list(scrape_rows[k])]
           /\ scrape_pc' = IF bad = {} THEN "written" ELSE "failed"
    /\ UNCHANGED <<scraper, table, scrape_rows, scrape_pos, fetch_log,
                   merge_vars, score_vars, extract_vars, sanitize_vars>>

NextScrape == ScrapeImagesRow \/ ScrapeImagesV2Row \/ WriteCsv

SpecScrape == InitScrape /\ [][NextScrape]_vars

(***************************************************************************)
(* Properties of the reconcilers (Spec)                                    *)
(***************************************************************************)
IsContent(r) == r.post_type \in ContentTypes

\* the fields a merged record copies from its content row
ContentFields(r) ==
    <<r.post_id, r.title, r.post_type, r.post_date, r.category, r.link,
      r.excerpt, r.content>>

ContentFieldsOf(rs) == [k \in 1..Len(rs) |-> ContentFields(rs[k])]

\* the number of content rows among the first j input rows
ContentRank(j) == Cardinality({k \in 1..j : IsContent(input_rows[k])})

FollowsPost == {"corrected", "with_attachments"}

C3_AttachmentUsedOnce ==
    \A a, b \in 1..Len(paired_from) :
        (a # b /\ paired_from[a] # 0) => paired_from[a] # paired_from[b]

\* an attachment stood between two content rows; the run is over, both content
\* rows have their record and exactly one of the two carries the attachment
C3_Witness ==
    /\ merge_pc = "returned" /\ Len(input_rows) = 3
    /\ input_rows[1].post_type \in ContentTypes
    /\ input_rows[2].post_type = "attachment"
    /\ input_rows[3].post_type \in ContentTypes
    /\ Len(paired_from) = 2
    /\ Cardinality({k \in 1..2 : paired_from[k] = 2}) = 1

\* what any call of check_match_quality with an empty filename returns
EmptyFilenameResult == [match_score |-> 0, needs_review |-> TRUE, reason |-> NoImage]

\* C7: every record merge_attachments_corrected emits with an empty derived
\* filename (unpaired, or paired with an attachment whose URL is empty or ends in
\* "/") has needs_review "YES" and review_reason "No image"; and for every title
\* check_match_quality(title, "") is (0, True, "No image").
C7_EmptyFilenameNoImage ==
    /\ variant = "corrected" =>
         \A k \in 1..Len(merged_posts) :
            merged_posts[k].attachment_filename = <<>> =>
               /\ merged_posts[k].needs_review = "YES"
               /\ merged_posts[k].review_reason = NoImage
    /\ \A t \in Titles : check_match_quality(t, <<>>) = EmptyFilenameResult

\* one record is paired with an attachment whose URL is not empty and yields no
\* filename, another is unpaired
C7_Witness ==
    /\ variant = "corrected" /\ merge_pc = "returned"
    /\ \E k \in 1..Len(merged_posts) :
          /\ merged_posts[k].attachment_url # <<>>
          /\ merged_posts[k].attachment_filename = <<>>
    /\ \E k \in 1..Len(merged_posts) :
          /\ merged_posts[k].attachment_id = ""
          /\ merged_posts[k].attachment_filename = <<>>

\* C17: in every record merge_attachments_corrected writes, needs_review is "NO"
\* only if attachment_url and attachment_filename are not empty and review_reason
\* is "Good match" or "Partial match"; and whenever attachment_url is empty,
\* attachment_filename is empty, needs_review is "YES" and review_reason is
\* "No image".
C17_ReviewColumnsConsistent ==
    variant = "corrected" =>
        \A k \in 1..Len(merged_posts) :
            LET m == merged_posts[k] IN
            /\ m.needs_review \in {"YES", "NO"}
            /\ m.needs_review = "NO" =>
                  /\ m.attachment_url # <<>>
                  /\ m.attachment_filename # <<>>
                  /\ m.review_reason \in {GoodMatch, PartialMatch}
            /\ m.attachment_url = <<>> =>
                  /\ m.attachment_filename = <<>>
                  /\ m.needs_review = "YES"
                  /\ m.review_reason = NoImage

\* the output holds an accepted record, a record flagged for a generic or
\* unmatched image, and a record without image
C17_Witness ==
    /\ variant = "corrected" /\ merge_pc = "returned"
    /\ \E k \in 1..Len(merged_posts) :
          merged_posts[k].needs_review = "NO" /\ merged_posts[k].review_reason = GoodMatch
    /\ \E k \in 1..Len(merged_posts) :
          merged_posts[k].needs_review = "YES" /\ merged_posts[k].attachment_url = <<>>

\* the run of the other of the two reconcilers on the same input
OtherRun ==
    IF variant = "to_posts" THEN merge_attachments_corrected_loop(input_rows, 0)
    ELSE merge_attachments_to_posts_loop(input_rows, 0)

AttachmentColumns == {"attachment_url", "attachment_id"}
ReviewColumns == {"attachment_filename", "needs_review", "review_reason"}
ContentColumns ==
    {"post_id", "title", "post_type", "post_date", "category", "link", "excerpt", "content"}

Returned == score_pc = "returned"

\* C4: check_match_quality("Kayak Trip Tips", "kayaking-adventure-2019") returns
\* score 8, needsReview false, reason "Partial match".
C4_KayakPartialMatch ==
    (Returned /\ title = Kayak_Trip_Tips /\ filename = kayaking_adventure_2019) =>
        score_result = [match_score |-> 8, needs_review |-> FALSE, reason |-> PartialMatch]

\* the basenames, as the claim lists them
GenericBasenames == {generic_names[k] : k \in 1..Len(generic_names)}

IsGenericReason(r) == \E g \in GenericBasenames : r = GenericImage(g)

\* C5 as stated: every non-empty filename that equals, or starts with, a generic
\* basename gets score 1, needsReview true, reason "Generic image (<basename>)".
C5_StartsWithBasename ==
    (Returned /\ filename # <<>>
        /\ \E g \in GenericBasenames : filename = g \/ startswith(filename, g)) =>
        /\ score_result.match_score = 1
        /\ score_result.needs_review
        /\ IsGenericReason(score_result.reason)

\* the positions in the list of the basenames b such that the lowercased
\* filename is b or starts with b followed by "_"
GenericHits(f) ==
    {k \in 1..Len(generic_names) :
        \/ lower(f) = generic_names[k]
        \/ startswith(lower(f), generic_names[k] \o <<"_">>)}

\* C5 amended: every filename whose lowercased form equals a generic basename, or
\* starts with a generic basename followed by "_", gets score 1, needsReview true
\* and reason "Generic image (<b>)", b the first such basename in list order,
\* whatever the title.
C5_GenericBasename ==
    (Returned /\ filename # <<>> /\ GenericHits(filename) # {}) =>
        LET first == CHOOSE k \in GenericHits(filename) :
                        \A j \in GenericHits(filename) : k <= j
        IN  score_result = [match_score |-> 1, needs_review |-> TRUE,
                            reason |-> GenericImage(generic_names[first])]

\* a filename that is a basename followed by "_" and more, scored under a title
\* that contains it
C5_Witness ==
    /\ Returned
    /\ filename = <<"i","m","g","_">>
    /\ title = <<"i">>
    /\ score_result.match_score = 1

\* lowercase, then keep only a-z and 0-9
Simplified(s) ==
    SelectSeq(lower(s), LAMBDA c : c \in LowerSet \cup Digits)

\* C6: for a non-empty, non-generic filename, when the simplified filename is a
\* substring of the simplified title or the other way round, the result is
\* (10, False, "Good match").
C6_GoodMatch ==
    (Returned /\ filename # <<>> /\ GenericHits(filename) = {}
        /\ \/ contains(Simplified(title), Simplified(filename))
           \/ contains(Simplified(filename), Simplified(title))) =>
        score_result = [match_score |-> 10, needs_review |-> FALSE, reason |-> GoodMatch]

\* "Summer BBQ Recap" with "summer-bbq-recap"
C6_Witness ==
    /\ Returned
    /\ title = Summer_BBQ_Recap /\ filename = summer_bbq_recap
    /\ score_result.match_score = 10

\* the scores of the decision table: no image, generic, good, partial, weak, none
DecisionTable == {0, 1, 10, 8, 5, 2}

SomeInputScores(score) ==
    \E t \in Titles, f \in Filenames : check_match_quality(t, f).match_score = score

\* C15: the outcomes of the scorer are those of the decision table, and every one
\* of them is returned for at least one input, score 8 "Partial match" and
\* score 5 "Weak match - verify" among them.
C15_EveryOutcomeReturned ==
    /\ Returned => score_result.match_score \in DecisionTable
    /\ \A score \in DecisionTable : SomeInputScores(score)
    /\ \E t \in Titles, f \in Filenames :
          check_match_quality(t, f) = Quality(8, FALSE, PartialMatch)
    /\ \E t \in Titles, f \in Filenames :
          check_match_quality(t, f) = Quality(5, TRUE, WeakMatch)

\* what the code does instead: no call returns 8 or 5
PartialAndWeakNeverReturned ==
    Returned => score_result.match_score \notin {8, 5}

ExtractedRecord(item) ==
    IF extractor = "parse_xml_file" THEN parse_xml_file_item(item)
    ELSE parse_xml_with_formatting_item(item)

HasIdTitleOrLink(post) == post.post_id # <<>> \/ post.title # <<>> \/ post.link # <<>>

Handled == SubSeq(items, 1, item_pos)

\* C8: in both extractors the output holds, in item order, exactly the records
\* of the handled items whose extracted post_id, title or link is non-empty:
\* one record for each such item, none for an item whose three are all empty.
C8_ExtractionCompleteness ==
    extract_pc \in {"loop", "returned"} =>
        parsed_posts = SelectSeq([k \in 1..item_pos |-> ExtractedRecord(items[k])],
                                 HasIdTitleOrLink)

\* two items were handled; the first, with all three empty, left no record and
\* the second, with an empty post_id and title but a link, left one
C8_Witness ==
    /\ extract_pc = "returned" /\ Len(items) = 2
    /\ ~HasIdTitleOrLink(ExtractedRecord(items[1]))
    /\ ExtractedRecord(items[2]).post_id = <<>>
    /\ ExtractedRecord(items[2]).title = <<>>
    /\ ExtractedRecord(items[2]).link # <<>>
    /\ parsed_posts = <<ExtractedRecord(items[2])>>

\* the handled items that left a record, in order
KeptItems == SelectSeq(Handled, LAMBDA item : HasIdTitleOrLink(ExtractedRecord(item)))

Slash == <<"/">>

\* the link as the claim words it (field values trimmed, as every extracted
\* value is)
ClaimedLink(item) ==
    IF item.link # <<>> THEN strip(item.link[1])
    ELSE IF item.post_name # <<>>
    THEN IF startswith(strip(item.post_name[1]), Slash)
         THEN strip(item.post_name[1])
         ELSE Slash \o strip(item.post_name[1])
    ELSE <<>>

\* C9 as stated: in both extractors the record's link is the explicit link
\* field when the item has one; else, with a post-name field, the post name
\* unchanged when it starts with "/" and "/" + post name when it does not;
\* else empty.
C9_SlashPrefixedLink ==
    extract_pc \in {"loop", "returned"} =>
        /\ Len(parsed_posts) = Len(KeptItems)
        /\ \A j \in 1..Len(parsed_posts) : parsed_posts[j].link = ClaimedLink(KeptItems[j])

BlogfeedSlash == <<"b","l","o","g","f","e","e","d","/">>
Year2017Slash == <<"2","0","1","7","/">>

AmendedLink(item) ==
    IF item.link # <<>> THEN strip(item.link[1])
    ELSE IF item.post_name = <<>> THEN <<>>
    ELSE LET name == strip(item.post_name[1]) IN
         IF startswith(name, Slash) THEN name
         ELSE IF extractor = "parse_xml_with_formatting" THEN Slash \o name
         ELSE IF startswith(name, BlogfeedSlash) \/ startswith(name, Year2017Slash)
         THEN Slash \o name
         ELSE Slash \o BlogfeedSlash \o name

\* C9 (amended): the record's link is the trimmed explicit link field when the
\* item has one; else, with a post-name field, the trimmed post name unchanged
\* when it starts with "/"; when it does not, parse_xml_with_formatting gives
\* "/" + post name, and parse_xml_file gives "/" + post name when the post name
\* starts with "blogfeed/" or "2017/" and "/blogfeed/" + post name otherwise;
\* with neither field the link is empty.
C9_LinkFallback ==
    extract_pc \in {"loop", "returned"} =>
        /\ Len(parsed_posts) = Len(KeptItems)
        /\ \A j \in 1..Len(parsed_posts) : parsed_posts[j].link = AmendedLink(KeptItems[j])

\* parse_xml_file has returned the record of an item with no link field and a
\* post name that starts with neither "/", "blogfeed/" nor "2017/"
C9_Witness ==
    /\ extractor = "parse_xml_file" /\ extract_pc = "returned"
    /\ \E j \in 1..Len(parsed_posts) :
          /\ KeptItems[j].link = <<>>
          /\ KeptItems[j].post_name = << <<"a">> >>
          /\ parsed_posts[j].link = <<"/","b","l","o","g","f","e","e","d","/","a">>

(***************************************************************************)
(* Properties of the sanitizers (SpecSanitize)                             *)
(***************************************************************************)
\* C10: both sanitizers are idempotent: the call on a sanitizer's own result
\* returns that result unchanged.
C10_Idempotent == sanitize_pc = "twice" => cleaned_again = cleaned

\* the start tags written in the formatting-preserving sanitizer's output
OutputStartTags == SelectSeq(goahead(cleaned, 1), LAMBDA e : e.kind = "start")

\* C11: in the output of clean_html_preserve_formatting every retained tag
\* carries no attribute at all, except that a link tag carries only its href,
\* whatever the attribute names on the input tag and whether or not the link
\* tag has an href.
C11_OnlyHrefKept ==
    (sanitizer = "clean_html_preserve_formatting" /\ sanitize_pc \in {"once", "twice"}) =>
        \A k \in 1..Len(OutputStartTags) :
            LET tag == OutputStartTags[k] IN
            \/ tag.attrs = <<>>
            \/ tag.name = <<"a">> /\ \A a \in 1..Len(tag.attrs) : tag.attrs[a][1] = Href

(***************************************************************************)
(* Properties of the live-resolution pass (SpecScrape)                     *)
(***************************************************************************)
Ended == scrape_pc \in {"written", "failed"}

IsResolved(row) == row.post_type = "post" /\ row.link # <<>>

KeptFields ==
    {"post_id", "title", "post_type", "post_date", "category", "link", "excerpt", "content"}

\* C12: update_csv_with_real_images (both versions) writes exactly one row per
\* input row, in input order; a row that is no post, or has an empty link, is
\* written with every field as in the input; of a post row with a link only
\* attachment_url changes when an image is found, and attachment_url and
\* attachment_id are both empty when none is; no other field changes.
C12_FrameEffect ==
    Ended =>
        /\ Len(written_rows) = Len(table)
        /\ \A k \in 1..Len(written_rows) :
              /\ \A f \in KeptFields : written_rows[k][f] = table[k][f]
              /\ ~IsResolved(table[k]) =>
                    \A f \in DOMAIN table[k] :
                        f \in DOMAIN written_rows[k] /\ written_rows[k][f] = table[k][f]
              /\ IsResolved(table[k]) =>
                    \/ /\ written_rows[k].attachment_url # <<>>
                       /\ written_rows[k].attachment_id = table[k].attachment_id
                    \/ /\ written_rows[k].attachment_url = <<>>
                       /\ written_rows[k].attachment_id = ""

\* the positions of the rows handled so far that the pass resolves
ResolvedSoFar == {k \in 1..scrape_pos : IsResolved(table[k])}

FailedAt(k) == \E j \in 1..Len(fetch_log) : fetch_log[j].pos = k /\ fetch_log[j].failed

ColumnsFit(row) == DOMAIN row \subseteq {fieldnames[f] : f \in 1..Len(fieldnames)}

C14_NoLogoOrIcon ==
    scraper = "scrape_images_v2" =>
        \A j \in 1..Len(fetch_log) :
            LET k == fetch_log[j].pos IN
            (k <= scrape_pos /\ ~fetch_log[j].failed) =>
                /\ ~contains(scrape_rows[k].attachment_url, <<"l","o","g","o">>)
                /\ ~contains(scrape_rows[k].attachment_url, <<"i","c","o","n">>)

IsAnnotated(t) == t # <<>> /\ \A k \in 1..Len(t) : "review_reason" \in DOMAIN t[k]

\* C16: on the annotated table merge_attachments_corrected writes (13 columns)
\* the pass completes without error and writes the header and exactly one row
\* per input row, never fewer.
C16_AnnotatedTableWritten ==
    (IsAnnotated(table) /\ Ended) =>
        /\ scrape_pc = "written"
        /\ written_header = fieldnames
        /\ Len(written_rows) = Len(table)

===============================================================================
